---- MODULE Spec2Model ----
(***************************************************************************)
(* LRCLIB Lyrics External Save: the save-event pipeline of the two plugin  *)
(* files of the repository,                                                *)
(*   lrclib_lyrics_external_save/__init__.py  (1.1.1, worker thread)       *)
(*   plugins/lrclib_lyrics_external_save.py   (1.0.0, on the host thread)  *)
(* Strings are sequences of one-character strings.  Python values are      *)
(* tagged records [t, v]: t is the Python type, v the characters of a str, *)
(* the decimal digits of an int, or the elements of a list.                *)
(***************************************************************************)
EXTENDS Integers, Sequences, FiniteSets, TLC

VARIABLES file, hadSidecars, service, calls, task, fs, writeOrder

vars == <<file, hadSidecars, service, calls, task, fs, writeOrder>>

(* The number of times the host invokes the handler for the saved file. *)
NumCalls == 2

(***************************************************************************)
(* Python values                                                           *)
(***************************************************************************)
PyNone == [t |-> "none", v |-> <<>>]

PyStr(s) == [t |-> "str", v |-> s]

PyInt(digits) == [t |-> "int", v |-> digits]

PyList(elems) == [t |-> "list", v |-> elems]

PyBool(b) == [t |-> "bool", v |-> IF b THEN <<"1">> ELSE <<>>]

(* bool(x) of a Python value: None, "", 0, [] and False are falsy. *)
Truthy(x) ==
  CASE x.t = "none" -> FALSE
    [] x.t = "int" -> x.v # <<"0">>
    [] OTHER -> x.v # <<>>

(* len(x) is defined for str and list and raises TypeError for int, bool, None. *)
HasLen(x) == x.t \in {"str", "list"}

(***************************************************************************)
(* str helpers                                                             *)
(***************************************************************************)
Digits == <<"0", "1", "2", "3", "4", "5", "6", "7", "8", "9">>

IsDigit(c) == \E i \in 1..10 : Digits[i] = c

DigitValue(c) == (CHOOSE i \in 1..10 : Digits[i] = c) - 1

(* s.rfind(c) + 1: the 1-based position of the last c in s, 0 when absent. *)
RFind(s, c) ==
  LET hits == {i \in 1..Len(s) : s[i] = c}
  IN IF hits = {} THEN 0 ELSE CHOOSE i \in hits : \A j \in hits : j <= i

(* s.find(c) + 1: the 1-based position of the first c in s, 0 when absent. *)
Find(s, c) ==
  LET hits == {i \in 1..Len(s) : s[i] = c}
  IN IF hits = {} THEN 0 ELSE CHOOSE i \in hits : \A j \in hits : i <= j

(* s.split(sep) for a one-character separator. *)
RECURSIVE Split(_, _)
Split(s, sep) ==
  LET i == Find(s, sep)
  IN IF i = 0 THEN <<s>>
     ELSE <<SubSeq(s, 1, i - 1)>> \o Split(SubSeq(s, i + 1, Len(s)), sep)

(* s.strip() for the blank. *)
RECURSIVE Strip(_)
Strip(s) ==
  IF s # <<>> /\ Head(s) = " " THEN Strip(Tail(s))
  ELSE IF s # <<>> /\ s[Len(s)] = " " THEN Strip(SubSeq(s, 1, Len(s) - 1))
  ELSE s

RECURSIVE DecimalValue(_)
DecimalValue(ds) ==
  IF ds = <<>> THEN 0
  ELSE 10 * DecimalValue(SubSeq(ds, 1, Len(ds) - 1)) + DigitValue(ds[Len(ds)])

(* int(s) of a str: blanks stripped, an optional sign, then decimal digits;  *)
(* anything else raises ValueError (ok = FALSE).                             *)
ParseInt(s) ==
  LET body == Strip(s)
      signed == body # <<>> /\ Head(body) \in {"+", "-"}
      ds == IF signed THEN Tail(body) ELSE body
      good == ds # <<>> /\ \A i \in 1..Len(ds) : IsDigit(ds[i])
  IN IF ~good THEN [ok |-> FALSE, n |-> 0]
     ELSE [ok |-> TRUE,
           n |-> IF signed /\ Head(body) = "-" THEN 0 - DecimalValue(ds)
                 ELSE DecimalValue(ds)]

(***************************************************************************)
(* Metadata extractor and duration parser                                  *)
(***************************************************************************)
NoDuration == [known |-> FALSE, n |-> 0]

(* The try block that parses "~length": duration stays None unless the     *)
(* string is truthy, splits into exactly two parts on ":" and both parts   *)
(* are accepted by int().                                                  *)
ParseLength(length_str) ==
  IF ~Truthy(length_str) THEN NoDuration
  ELSE LET parts == Split(length_str.v, ":")
       IN IF Len(parts) # 2 THEN NoDuration
          ELSE LET minutes == ParseInt(parts[1])
                   seconds == ParseInt(parts[2])
               IN IF minutes.ok /\ seconds.ok
                  THEN [known |-> TRUE, n |-> minutes.n * 60 + seconds.n]
                  ELSE NoDuration

NoQuery ==
  [built |-> FALSE, track_name |-> PyNone, artist_name |-> PyNone,
   album_name |-> PyNone, duration |-> 0]

(* "if not (title and artist and duration): return None": a duration of    *)
(* None or 0 is falsy, every other integer is truthy.                      *)
BuildQueryFromSnapshot(snapshot) ==
  LET duration == ParseLength(snapshot.length)
  IN IF ~(Truthy(snapshot.title) /\ Truthy(snapshot.artist)
          /\ duration.known /\ duration.n # 0)
     THEN NoQuery
     ELSE [built |-> TRUE,
           track_name |-> snapshot.title,
           artist_name |-> snapshot.artist,
           album_name |-> IF Truthy(snapshot.album) THEN snapshot.album ELSE PyStr(<<>>),
           duration |-> duration.n]

(***************************************************************************)
(* Lyrics client                                                           *)
(***************************************************************************)
(* A key that the JSON object does not hold. *)
Absent == [t |-> "absent", v |-> <<>>]

(* obj.get(key): None for a missing key, the value otherwise (JSON null is  *)
(* None as well).                                                           *)
Get(x) == IF x.t = "absent" THEN PyNone ELSE x

NotFound == [raised |-> FALSE, lyrics |-> PyNone, is_synced |-> PyNone]

Found(text, synced) == [raised |-> FALSE, lyrics |-> text, is_synced |-> PyBool(synced)]

(* An exception that leaves the function: there is no return value. *)
Raised == [raised |-> TRUE, lyrics |-> PyNone, is_synced |-> PyNone]

(* The client with the two lyrics keys tried in the other order. *)
LyricsFromJsonPlainFirst(resp) ==
  IF resp.top \notin {"object", "array"} THEN NotFound
  ELSE IF ~Truthy(Get(resp.id)) THEN NotFound
  ELSE LET synced == Get(resp.syncedLyrics)
           plain == Get(resp.plainLyrics)
       IN IF Truthy(plain)
          THEN (IF HasLen(plain) THEN Found(plain, FALSE) ELSE Raised)
          ELSE IF Truthy(synced)
          THEN (IF HasLen(synced) THEN Found(synced, TRUE) ELSE Raised)
          ELSE NotFound

(* The part after json.loads: pick the first element of an array, require a *)
(* dict with a truthy id, then prefer syncedLyrics over plainLyrics.  The   *)
(* log call evaluates len() of the chosen value outside any try block.      *)
LyricsFromJson(resp) ==
  IF resp.top \notin {"object", "array"} THEN NotFound
  ELSE IF ~Truthy(Get(resp.id)) THEN NotFound
  ELSE LET synced == Get(resp.syncedLyrics)
           plain == Get(resp.plainLyrics)
       IN IF Truthy(synced)
          THEN (IF HasLen(synced) THEN Found(synced, TRUE) ELSE Raised)
          ELSE IF Truthy(plain)
          THEN (IF HasLen(plain) THEN Found(plain, FALSE) ELSE Raised)
          ELSE NotFound

(* _fetch_lyrics_from_lrclib for one outcome of the request: a failed      *)
(* urlopen/read and a body json.loads rejects both return (None, None).    *)
FetchLyricsFromLrclib(resp) ==
  IF resp.kind \in {"connError", "timeout", "httpError"} THEN NotFound
  ELSE IF resp.kind = "notJson" THEN NotFound
  ELSE LyricsFromJson(resp)

(***************************************************************************)
(* Sidecar writer                                                          *)
(***************************************************************************)
(* os.path.split (posixpath): cut after the last "/", then strip trailing  *)
(* slashes from the head unless the head is nothing but slashes.           *)
RECURSIVE RStripSlash(_)
RStripSlash(s) ==
  IF s # <<>> /\ s[Len(s)] = "/" THEN RStripSlash(SubSeq(s, 1, Len(s) - 1)) ELSE s

PathSplit(p) ==
  LET i == RFind(p, "/")
      head == SubSeq(p, 1, i)
      tail == SubSeq(p, i + 1, Len(p))
      allSlashes == \A k \in 1..Len(head) : head[k] = "/"
  IN [head |-> IF head # <<>> /\ ~allSlashes THEN RStripSlash(head) ELSE head,
      tail |-> tail]

(* os.path.splitext: the extension starts at the last dot of the last      *)
(* component, unless only dots precede it in that component.               *)
SplitExt(p) ==
  LET sepIndex == RFind(p, "/")
      dotIndex == RFind(p, ".")
      named == \E k \in (sepIndex + 1)..(dotIndex - 1) : p[k] # "."
  IN IF dotIndex > sepIndex /\ named
     THEN [root |-> SubSeq(p, 1, dotIndex - 1), ext |-> SubSeq(p, dotIndex, Len(p))]
     ELSE [root |-> p, ext |-> <<>>]

(* os.path.join(a, b) (posixpath). *)
PathJoin(a, b) ==
  IF b # <<>> /\ Head(b) = "/" THEN b
  ELSE IF a = <<>> \/ a[Len(a)] = "/" THEN a \o b
  ELSE a \o <<"/">> \o b

LrcExt == <<".", "l", "r", "c">>

TxtExt == <<".", "t", "x", "t">>

(* ext = ".lrc" if is_synced else ".txt" *)
SidecarExt(is_synced) == IF Truthy(is_synced) THEN LrcExt ELSE TxtExt

(* out_path of the sidecar writer. *)
SidecarPath(audio_path, is_synced) ==
  LET parts == PathSplit(audio_path)
      stem == SplitExt(parts.tail).root
  IN PathJoin(parts.head, stem \o SidecarExt(is_synced))

(* An open that creates the file but keeps what it holds (mode "a"). *)
OpenedKeeping(disk, path) == [disk EXCEPT ![path].exists = TRUE]

(* open(out_path, "w"): the file exists afterwards and is empty. *)
Truncated(disk, path) == [disk EXCEPT ![path] = [exists |-> TRUE, data |-> <<>>]]

(* A flush of the characters written through a descriptor opened at offset *)
(* 0 without O_APPEND: they replace the start of the file, and what the    *)
(* file holds beyond them stays.                                           *)
Flushed(disk, path, chars) ==
  [disk EXCEPT ![path] =
     [exists |-> TRUE,
      data |-> chars \o SubSeq(disk[path].data, Len(chars) + 1, Len(disk[path].data))]]

(***************************************************************************)
(* Inputs.  The directory /m stands for the /music/a of the examples.      *)
(***************************************************************************)
(* /m/Song.flac *)
SongFlac == <<"/", "m", "/", "S", "o", "n", "g", ".", "f", "l", "a", "c">>

(* /m/Song.lrc *)
SongLrc == <<"/", "m", "/", "S", "o", "n", "g", ".", "l", "r", "c">>

(* /m/Song.txt *)
SongTxt == <<"/", "m", "/", "S", "o", "n", "g", ".", "t", "x", "t">>

(* /m/Song *)
SongNoExt == <<"/", "m", "/", "S", "o", "n", "g">>

(* Song.flac *)
RelativeSong == <<"S", "o", "n", "g", ".", "f", "l", "a", "c">>

(* /Song.flac *)
RootSong == <<"/", "S", "o", "n", "g", ".", "f", "l", "a", "c">>

(* /m/.hidden *)
HiddenFile == <<"/", "m", "/", ".", "h", "i", "d", "d", "e", "n">>

(* /m.b/Song *)
DottedDir == <<"/", "m", ".", "b", "/", "S", "o", "n", "g">>

(* /m/So.tar.gz *)
SongTarGz == <<"/", "m", "/", "S", "o", ".", "t", "a", "r", ".", "g", "z">>

AudioPaths ==
  {SongFlac, SongLrc, SongTxt, SongNoExt, RelativeSong, RootSong, HiddenFile,
   DottedDir, SongTarGz}

(* The ~length strings: "", "3:45", "0:00", "0:05", "12:07", "-1:30",      *)
(* "1:-30", "1:-90", "-0:30", "+1:05", " 3:45", "abc", "1:2:3", "3:", ":", *)
(* "3:4x".                                                                 *)
LengthStrings ==
  {<<>>,
   <<"3", ":", "4", "5">>,
   <<"0", ":", "0", "0">>,
   <<"0", ":", "0", "5">>,
   <<"1", "2", ":", "0", "7">>,
   <<"-", "1", ":", "3", "0">>,
   <<"1", ":", "-", "3", "0">>,
   <<"1", ":", "-", "9", "0">>,
   <<"-", "0", ":", "3", "0">>,
   <<"+", "1", ":", "0", "5">>,
   <<" ", "3", ":", "4", "5">>,
   <<"a", "b", "c">>,
   <<"1", ":", "2", ":", "3">>,
   <<"3", ":">>,
   <<":">>,
   <<"3", ":", "4", "x">>}

(* What md.get(key) gives for a tag: None, "" or a text. *)
TagValues(text) == {PyNone, PyStr(<<>>), PyStr(text)}

Metadata(title, artist, album, length) ==
  [raises |-> FALSE, title |-> title, artist |-> artist, album |-> album,
   length |-> length]

(* {title: "X", artist: "Y", album: "Z", ~length: "3:45"} *)
RefMetadata ==
  Metadata(PyStr(<<"X">>), PyStr(<<"Y">>), PyStr(<<"Z">>), PyStr(<<"3", ":", "4", "5">>))

(* A metadata accessor that raises. *)
BrokenMetadata == [RefMetadata EXCEPT !.raises = TRUE]

AllMetadata ==
  {Metadata(t, a, al, l) :
     t \in TagValues(<<"X">>), a \in TagValues(<<"Y">>), al \in TagValues(<<"Z">>),
     l \in {PyNone} \cup {PyStr(x) : x \in LengthStrings}}

FileRef(nameRaises, path, md) ==
  [filename |-> [raises |-> nameRaises, v |-> path], metadata |-> md]

(* One save event: every path with the reference tags, every tag snapshot  *)
(* at the reference path, and the two accessors that raise.                *)
OnceFiles ==
  {FileRef(FALSE, p, RefMetadata) : p \in AudioPaths}
    \cup {FileRef(FALSE, SongFlac, md) : md \in AllMetadata}
    \cup {FileRef(TRUE, SongFlac, RefMetadata), FileRef(FALSE, SongFlac, BrokenMetadata)}

(* The handler invoked again for the same file. *)
AgainFiles == {FileRef(FALSE, SongFlac, RefMetadata)}

TextLong == <<"[", "1", "]", "a">>

TextShort == <<"[", "b">>

TextPlain == <<"p", "q", "r">>

OldText == <<"o", "l", "d", "e", "r">>

AudioData == <<"I", "D", "3">>

NoResp ==
  [kind |-> "none", top |-> "none", id |-> Absent, syncedLyrics |-> Absent,
   plainLyrics |-> Absent]

Failure(kind) == [NoResp EXCEPT !.kind = kind]

(* A JSON document: top is its shape (object, array whose first element is *)
(* an object, emptyArray, arrayOfScalar, scalar); the three keys are those *)
(* of the object.                                                          *)
Json(top, id, synced, plain) ==
  [kind |-> "json", top |-> top, id |-> id, syncedLyrics |-> synced,
   plainLyrics |-> plain]

IdValues == {Absent, PyInt(<<"0">>), PyInt(<<"1">>)}

SyncedValues ==
  {Absent, PyNone, PyStr(<<>>), PyStr(TextLong), PyStr(TextShort), PyInt(<<"5">>),
   PyList(<<"1">>)}

PlainValues == {Absent, PyStr(<<>>), PyStr(TextPlain), PyInt(<<"5">>)}

Responses ==
  {Failure(k) : k \in {"connError", "timeout", "httpError", "notJson"}}
    \cup {Json(top, Absent, Absent, Absent) : top \in {"scalar", "emptyArray", "arrayOfScalar"}}
    \cup {Json(top, id, s, p) :
            top \in {"object", "array"}, id \in IdValues, s \in SyncedValues,
            p \in PlainValues}

(* The answers when the handler is invoked again: a timeout and lyrics of   *)
(* different lengths.                                                      *)
AgainResponses ==
  {Failure("timeout"),
   Json("object", PyInt(<<"1">>), PyStr(TextLong), PyStr(TextPlain)),
   Json("object", PyInt(<<"1">>), PyStr(TextShort), Absent),
   Json("array", PyInt(<<"1">>), PyNone, PyStr(TextPlain))}

(***************************************************************************)
(* State                                                                   *)
(***************************************************************************)
NoTask ==
  [impl |-> "none", pc |-> "Idle", host |-> "idle", thread |-> "none",
   query |-> NoQuery, resp |-> NoResp, result |-> NotFound, out_path |-> <<>>,
   netThread |-> "none", openThread |-> "none"]

(* The paths the run can touch: the audio file and its two sidecars. *)
DiskPaths(f) ==
  {f.filename.v, SidecarPath(f.filename.v, PyBool(TRUE)),
   SidecarPath(f.filename.v, PyBool(FALSE))}

(* The disk when the host has saved the file: the audio file is there, and  *)
(* the sidecars are either both missing or both left from an earlier run.   *)
SavedDisk(f, kept) ==
  [p \in DiskPaths(f) |->
     IF p = f.filename.v THEN [exists |-> TRUE, data |-> AudioData]
     ELSE IF kept THEN [exists |-> TRUE, data |-> OldText]
     ELSE [exists |-> FALSE, data |-> <<>>]]

(* The disk as the host left it. *)
fs0 == SavedDisk(file, hadSidecars)

(* What the lookup service may answer in this run. *)
Answers == IF service = "any" THEN Responses ELSE AgainResponses

InitWith(files, n, answers) ==
  /\ file \in files
  /\ service = answers
  /\ calls = 1..n
  /\ task = [c \in 1..n |-> NoTask]
  /\ hadSidecars \in BOOLEAN
  /\ fs = SavedDisk(file, hadSidecars)
  /\ writeOrder = <<>>

(* Either one save event over the wide inputs, or the handler invoked      *)
(* NumCalls times for one file.                                            *)
Init ==
  \/ InitWith(OnceFiles, 1, "any")
  \/ InitWith(AgainFiles, NumCalls, "lyrics")

(***************************************************************************)
(* Save-event handler and pipeline steps                                   *)
(***************************************************************************)
(* The end of a run.  A run on the host thread is the handler call itself, *)
(* which returns when the run ends; an exception inside it is caught by    *)
(* the try block around the whole handler body.                            *)
End(t, pc) ==
  [t EXCEPT !.pc = pc, !.host = IF t.thread = "host" THEN "returned" ELSE @]

(* The package handler without the try block around file.filename. *)
PackagePostSaveUncaught(f, startOk) ==
  IF f.filename.raises
  THEN [NoTask EXCEPT !.impl = "package", !.pc = "Skipped", !.host = "raised"]
  ELSE IF f.metadata.raises \/ ~startOk
  THEN [NoTask EXCEPT !.impl = "package", !.pc = "Skipped", !.host = "returned"]
  ELSE [NoTask EXCEPT !.impl = "package", !.pc = "Start", !.host = "returned",
                      !.thread = "worker"]

(* lrclib_simple_file_post_save of the package: read the path, snapshot the *)
(* tags, start the daemon thread; each of the three is in its own try block *)
(* and the call returns in every case.                                      *)
PackagePostSave(f, startOk) ==
  IF f.filename.raises \/ f.metadata.raises \/ ~startOk
  THEN [NoTask EXCEPT !.impl = "package", !.pc = "Skipped", !.host = "returned"]
  ELSE [NoTask EXCEPT !.impl = "package", !.pc = "Start", !.host = "returned",
                      !.thread = "worker"]

(* lrclib_simple_file_post_save of the single-file plugin up to its first  *)
(* statement: the log call reads file.filename inside the try block, and    *)
(* the pipeline then runs inside the call.                                  *)
PluginPostSave(f) ==
  IF f.filename.raises
  THEN [NoTask EXCEPT !.impl = "plugin", !.pc = "Skipped", !.host = "returned",
                      !.thread = "host"]
  ELSE [NoTask EXCEPT !.impl = "plugin", !.pc = "Start", !.host = "inHandler",
                      !.thread = "host"]

(* query = _build_query...; if not query: return.  The plugin reads        *)
(* file.metadata here, and an accessor that raises ends the run in the      *)
(* handler's except clause.                                                 *)
BuildStep(t, f) ==
  IF f.metadata.raises THEN End(t, "Skipped")
  ELSE LET q == BuildQueryFromSnapshot(f.metadata)
       IN IF ~q.built THEN End(t, "Skipped")
          ELSE [t EXCEPT !.pc = "QueryBuilt", !.query = q]

(* lyrics, is_synced = _fetch_lyrics_from_lrclib(query); if not lyrics:     *)
(* return.  An exception out of the client is caught by the try block of    *)
(* the worker (of the handler, in the plugin).                              *)
FetchStep(t, resp) ==
  LET r == FetchLyricsFromLrclib(resp)
      asked == [t EXCEPT !.resp = resp, !.result = r, !.netThread = t.thread]
  IN IF r.raised \/ ~Truthy(r.lyrics) THEN End(asked, "Skipped")
     ELSE [asked EXCEPT !.pc = "LyricsFetched"]

(* The sidecar writer up to open(out_path, "w"): a failed open is caught    *)
(* and logged.                                                              *)
OpenStep(t, f, opened) ==
  LET out == SidecarPath(f.filename.v, t.result.is_synced)
  IN IF opened
     THEN [t EXCEPT !.pc = "Opened", !.out_path = out, !.openThread = t.thread]
     ELSE End([t EXCEPT !.out_path = out], "WriteFailed")

(* f.write(lyrics) and the close at the end of the with block: n is the    *)
(* number of characters that reach the file.  A value that is no str makes  *)
(* write raise TypeError; fewer than all characters is an I/O error; both   *)
(* are caught and logged.                                                   *)
WriteStep(t, n) ==
  IF t.result.lyrics.t = "str" /\ n = Len(t.result.lyrics.v)
  THEN End(t, "SidecarWritten")
  ELSE End(t, "WriteFailed")

Written(t, n) ==
  IF t.result.lyrics.t = "str" THEN SubSeq(t.result.lyrics.v, 1, n) ELSE <<>>

(* The host calls the handler on its own thread, one call after the other. *)
HostCanCall(c) ==
  /\ c \in calls
  /\ task[c].pc = "Idle"
  /\ \A d \in calls : task[d].host # "inHandler"
  /\ \A d \in calls : d < c => task[d].pc # "Idle"

(* The run of call c is at pc. *)
At(c, pc) == c \in calls /\ task[c].pc = pc

(* The thread that takes the steps of call c's run. *)
OnThread(c, thread) == c \in calls /\ task[c].thread = thread

PostSavePackage(c) ==
  /\ HostCanCall(c)
  /\ \E startOk \in BOOLEAN :
       task' = [task EXCEPT ![c] = PackagePostSave(file, startOk)]
  /\ UNCHANGED <<file, hadSidecars, service, calls, fs, writeOrder>>

PostSavePlugin(c) ==
  /\ HostCanCall(c)
  /\ task' = [task EXCEPT ![c] = PluginPostSave(file)]
  /\ UNCHANGED <<file, hadSidecars, service, calls, fs, writeOrder>>

Build(c) ==
  /\ At(c, "Start")
  /\ task' = [task EXCEPT ![c] = BuildStep(task[c], file)]
  /\ UNCHANGED <<file, hadSidecars, service, calls, fs, writeOrder>>

Fetch(c) ==
  /\ At(c, "QueryBuilt")
  /\ \E resp \in Answers : task' = [task EXCEPT ![c] = FetchStep(task[c], resp)]
  /\ UNCHANGED <<file, hadSidecars, service, calls, fs, writeOrder>>

Open(c) ==
  /\ At(c, "LyricsFetched")
  /\ \E opened \in BOOLEAN :
       LET t == OpenStep(task[c], file, opened)
       IN /\ task' = [task EXCEPT ![c] = t]
          /\ fs' = IF opened THEN Truncated(fs, t.out_path) ELSE fs
  /\ UNCHANGED <<file, hadSidecars, service, calls, writeOrder>>

Write(c) ==
  /\ At(c, "Opened")
  /\ \E n \in 0..Len(task[c].result.lyrics.v) :
       LET t == WriteStep(task[c], n)
       IN /\ task' = [task EXCEPT ![c] = t]
          /\ fs' = Flushed(fs, t.out_path, Written(task[c], n))
          /\ writeOrder' = IF t.pc = "SidecarWritten" THEN Append(writeOrder, c)
                           ELSE writeOrder
  /\ UNCHANGED <<file, hadSidecars, service, calls>>

(* The steps of _worker_for_file, taken by the daemon thread. *)
WorkerBuild(c) ==
  /\ OnThread(c, "worker")
  /\ Build(c)

WorkerFetch(c) ==
  /\ OnThread(c, "worker")
  /\ Fetch(c)

WorkerOpen(c) ==
  /\ OnThread(c, "worker")
  /\ Open(c)

WorkerWrite(c) ==
  /\ OnThread(c, "worker")
  /\ Write(c)

(* The same steps in the single-file plugin, taken by the host's thread    *)
(* inside the handler call.                                                *)
PluginBuild(c) ==
  /\ OnThread(c, "host")
  /\ Build(c)

PluginFetch(c) ==
  /\ OnThread(c, "host")
  /\ Fetch(c)

PluginOpen(c) ==
  /\ OnThread(c, "host")
  /\ Open(c)

PluginWrite(c) ==
  /\ OnThread(c, "host")
  /\ Write(c)

Next ==
  \E c \in 1..NumCalls :
    \/ PostSavePackage(c)
    \/ WorkerBuild(c)
    \/ WorkerFetch(c)
    \/ WorkerOpen(c)
    \/ WorkerWrite(c)
    \/ PostSavePlugin(c)
    \/ PluginBuild(c)
    \/ PluginFetch(c)
    \/ PluginOpen(c)
    \/ PluginWrite(c)

Spec == Init /\ [][Next]_vars

(***************************************************************************)
(* Properties                                                              *)
(***************************************************************************)
Terminal == {"Skipped", "WriteFailed", "SidecarWritten"}

AudioPath == file.filename.v

(* C1: in every implementation of the handler, the lookup request and the  *)
(* sidecar write happen on a thread of their own, never on the host's      *)
(* thread inside the handler call.                                         *)
C1_NothingBlockingOnHostThread ==
  \A c \in calls : task[c].netThread # "host" /\ task[c].openThread # "host"

(* C2: for every outcome of the request the client returns a result, Found *)
(* or NotFound; no exception leaves it.                                    *)
C2_ClientNeverRaises ==
  \A c \in calls : task[c].resp.kind # "none" => ~task[c].result.raised

(* The snapshot has a ~length that parses to a duration above zero. *)
HasPositiveLength(md) == ParseLength(md.length).known /\ ParseLength(md.length).n > 0

(* C3: a snapshot without a non-empty title, a non-empty artist or a       *)
(* ~length that parses to a positive duration gives no query, and its run  *)
(* goes from Start to Skipped with no request issued and no sidecar opened.*)
C3_IncompleteSnapshotSkips ==
  \A c \in calls :
    ~(/\ Truthy(file.metadata.title)
      /\ Truthy(file.metadata.artist)
      /\ HasPositiveLength(file.metadata))
      => /\ ~task[c].query.built
         /\ task[c].pc \in {"Idle", "Start", "Skipped"}
         /\ task[c].netThread = "none"
         /\ task[c].openThread = "none"
         /\ fs = fs0

(* C4: every query the builder returns has a non-empty track_name and      *)
(* artist_name, a str album_name, and a duration above zero that equals    *)
(* minutes*60+seconds of the two-part ~length.                             *)
C4_QueryWellFormed ==
  \A c \in calls :
    task[c].query.built =>
      LET q == task[c].query
          parts == Split(file.metadata.length.v, ":")
      IN /\ q.track_name.t = "str" /\ q.track_name.v # <<>>
         /\ q.artist_name.t = "str" /\ q.artist_name.v # <<>>
         /\ q.album_name.t = "str"
         /\ (~Truthy(file.metadata.album) => q.album_name.v = <<>>)
         /\ q.duration > 0
         /\ Len(parts) = 2
         /\ q.duration = ParseInt(parts[1]).n * 60 + ParseInt(parts[2]).n

(* C5: when every run so far has ended in a failure (skipped, lookup       *)
(* failed, nothing found, or the write failed), the disk is as the host    *)
(* left it: no sidecar was created and none was changed.                   *)
C5_FailureLeavesNoSidecar ==
  (/\ \A c \in calls : task[c].pc \in {"Idle", "Skipped", "WriteFailed"}
   /\ \E c \in calls : task[c].pc \in {"Skipped", "WriteFailed"})
    => fs = fs0

(* C6: the only path a run opens for writing is the sidecar path, that     *)
(* path is not the audio file's, and the audio file keeps its content.     *)
C6_AudioFileUntouched ==
  /\ \A c \in calls : task[c].openThread # "none" => task[c].out_path # AudioPath
  /\ fs[AudioPath] = fs0[AudioPath]

(* C7: no error escapes the handler: a call, once made, returns to the     *)
(* host (at once in the package, at the end of the run in the plugin), and *)
(* a file reference whose filename or metadata accessor raises ends in     *)
(* Skipped with no lookup and no write.                                    *)
C7_HandlerNeverRaises ==
  \A c \in calls :
    /\ task[c].host # "raised"
    /\ task[c].pc \in Terminal => task[c].host = "returned"
    /\ (task[c].impl = "package" /\ task[c].pc # "Idle") => task[c].host = "returned"
    /\ (file.filename.raises \/ file.metadata.raises) =>
         /\ task[c].pc \in {"Idle", "Start", "Skipped"}
         /\ task[c].netThread = "none"
         /\ task[c].openThread = "none"
         /\ fs = fs0

(* A handler call for a file whose path cannot be read has returned,       *)
(* skipped, and so has one whose tags cannot be read.                      *)
C7_Witness ==
  /\ file.filename.raises
  /\ \E c \in calls :
       task[c].impl = "package" /\ task[c].pc = "Skipped" /\ task[c].host = "returned"

(* name = stem + ext, where ext is the last extension of the file name: it *)
(* starts at a dot that follows a character other than a dot and holds no  *)
(* further dot; a name with no such dot has the empty extension.           *)
HasExtension(stem, ext) ==
  /\ ext # <<>> /\ Head(ext) = "." /\ \A k \in 2..Len(ext) : ext[k] # "."
  /\ \E k \in 1..Len(stem) : stem[k] # "."

IsStemOf(stem, name) ==
  \E j \in 0..Len(name) :
    /\ stem = SubSeq(name, 1, j)
    /\ \/ HasExtension(stem, SubSeq(name, j + 1, Len(name)))
       \/ /\ j = Len(name)
          /\ ~\E i \in 0..Len(name) :
               HasExtension(SubSeq(name, 1, i), SubSeq(name, i + 1, Len(name)))

(* out is the directory part of audio (up to and with its last slash),     *)
(* then the stem of the file name, then the extension.                     *)
IsSidecarOf(out, audio, ext) ==
  \E i \in 0..Len(audio) :
    /\ i = 0 \/ audio[i] = "/"
    /\ \A k \in (i + 1)..Len(audio) : audio[k] # "/"
    /\ \E j \in i..Len(audio) :
         /\ IsStemOf(SubSeq(audio, i + 1, j), SubSeq(audio, i + 1, Len(audio)))
         /\ out = SubSeq(audio, 1, j) \o ext

C9_SyncedPreferred ==
  \A c \in calls :
    LET r == task[c].resp
        res == task[c].result
    IN r.kind = "json" =>
         /\ (/\ r.top \in {"object", "array"}
             /\ Truthy(Get(r.id))
             /\ r.syncedLyrics.t = "str" /\ r.syncedLyrics.v # <<>>
             /\ r.plainLyrics.t = "str" /\ r.plainLyrics.v # <<>>)
              => res = [raised |-> FALSE, lyrics |-> r.syncedLyrics,
                        is_synced |-> PyBool(TRUE)]
         /\ (~res.raised /\ res.is_synced = PyBool(FALSE)) =>
              /\ r.syncedLyrics \in {Absent, PyNone, PyStr(<<>>)}
              /\ r.plainLyrics.t # "absent" /\ r.plainLyrics.v # <<>>
              /\ res.lyrics = r.plainLyrics

(* An array response with both texts has given the synced one. *)
C9_Witness ==
  \E c \in calls :
    /\ task[c].resp = Json("array", PyInt(<<"1">>), PyStr(TextShort), PyStr(TextPlain))
    /\ task[c].pc = "LyricsFetched"
    /\ task[c].result.lyrics = PyStr(TextShort)

(* C10: when two calls for one file have each started a background task,   *)
(* both tasks have written the same sidecar and every run has ended, the   *)
(* sidecar holds exactly the text of the task that wrote last.             *)
C10_LastWriterWins ==
  (/\ \A c \in calls : task[c].pc = "SidecarWritten" /\ task[c].thread = "worker"
   /\ Len(writeOrder) >= 2
   /\ \A c \in calls : task[c].out_path = task[writeOrder[1]].out_path)
    => LET last == task[writeOrder[Len(writeOrder)]]
       IN fs[last.out_path].data = last.result.lyrics.v

====
